---- MODULE Spec2Model ----
(***************************************************************************)
(* A model of the dnf perfmetrics plug-in (plugins/perfmetrics.py).        *)
(*                                                                         *)
(* Text is a sequence of one-character strings, so that the regular        *)
(* expression, str.replace, int() and str.format are computed character by *)
(* character.  Time is the wall clock in whole seconds.  The file system   *)
(* is a set of entries (path, mtime, kind), a path being a sequence of     *)
(* components.                                                             *)
(***************************************************************************)
EXTENDS Integers, Sequences, FiniteSets, TLC

VARIABLES
    clock,                    \* time.time(), in seconds
    fs,                       \* the file system: a set of entries
    cfg,                      \* the plug-in's configuration file
    euid,                     \* os.geteuid() of each process
    pc,                       \* where each process is in its lifecycle
    err,                      \* the exception that left a hook, if any
    time_metrics,             \* self.time_metrics
    metrics_dir,              \* self.metrics_dir
    retention_hours,          \* self.retention_hours
    full_command_start_time,  \* self.full_command_start_time
    transaction_start_time,   \* self.transaction_start_time
    lastLog,                  \* outcome of the last dispatch of the dnf logger
    wnow,                     \* write_results: now
    writes,                   \* the records json.dump has written, in order
    cnow,                     \* cleanup_old_logs: now
    listed,                   \* cleanup_old_logs: what os.listdir returned
    todo,                     \* cleanup_old_logs: entries still to examine
    cur,                      \* cleanup_old_logs: f, the entry being removed
    statted,                  \* cleanup_old_logs: what os.stat returned
    removed,                  \* cleanup_old_logs: the paths os.remove removed
    werr                      \* write_results: the except branch ran

vars == <<clock, fs, cfg, euid, pc, err, time_metrics, metrics_dir,
          retention_hours, full_command_start_time, transaction_start_time,
          lastLog, wnow, writes, cnow, listed, todo, cur, statted, removed,
          werr>>

(***************************************************************************)
(* Bounds of the model.                                                    *)
(***************************************************************************)
MaxEventLen == 2     \* longest <event> of a generated message
MaxNumLen == 3       \* longest <number> of a generated message
MaxTicks == 1        \* seconds the clock may advance
MaxOldFiles == 2     \* entries in metrics_dir before the run

(***************************************************************************)
(* Program constants.                                                      *)
(***************************************************************************)
DEFAULT_RETENTION_HOURS == 4
SecondsPerHour == 3600
MsPerSecond == 1000
ROOT_UID == 0
DEFAULT_METRICS_DIR == << <<"var">>, <<"log">>, <<"dnf">>, <<"perfmetrics">> >>

(***************************************************************************)
(* Text.                                                                   *)
(***************************************************************************)
Digits == <<"0", "1", "2", "3", "4", "5", "6", "7", "8", "9">>
DigitSet == {Digits[i] : i \in 1..10}
DigitVal(c) == (CHOOSE i \in 1..10 : Digits[i] = c) - 1

RECURSIVE DecVal(_)
DecVal(s) ==
    IF s = <<>> THEN 0
    ELSE 10 * DecVal(SubSeq(s, 1, Len(s) - 1)) + DigitVal(s[Len(s)])

\* str(n) of an int
RECURSIVE NatToChars(_)
NatToChars(n) ==
    IF n < 10 THEN <<Digits[n + 1]>>
    ELSE NatToChars(n \div 10) \o <<Digits[(n % 10) + 1]>>
IntToChars(n) == IF n < 0 THEN <<"-">> \o NatToChars(-n) ELSE NatToChars(n)

\* s.replace(a, b) for one-character a and b
Replace(s, a, b) == [i \in 1..Len(s) |-> IF s[i] = a THEN b ELSE s[i]]

\* s.strip(): int() ignores surrounding white space
RECURSIVE Strip(_)
Strip(s) ==
    IF s = <<>> THEN s
    ELSE IF s[1] = " " THEN Strip(Tail(s))
    ELSE IF s[Len(s)] = " " THEN Strip(SubSeq(s, 1, Len(s) - 1))
    ELSE s

\* Python's int(s) of a string: optional sign, then digits, single
\* underscores allowed between digits; anything else is a ValueError.
PyIntDigitsOk(d) ==
    /\ d # <<>>
    /\ d[1] \in DigitSet
    /\ d[Len(d)] \in DigitSet
    /\ \A i \in 1..Len(d) : d[i] \in DigitSet \cup {"_"}
    /\ \A i \in 1..(Len(d) - 1) : ~(d[i] = "_" /\ d[i + 1] = "_")
RECURSIVE DropUnderscores(_)
DropUnderscores(d) ==
    IF d = <<>> THEN d
    ELSE IF d[1] = "_" THEN DropUnderscores(Tail(d))
    ELSE <<d[1]>> \o DropUnderscores(Tail(d))
\* (mutant) a malformed number falls back to the default silently
PyIntOrDefault(s) ==
    IF s # <<>> /\ \A i \in 1..Len(s) : s[i] \in DigitSet
    THEN [ok |-> TRUE, val |-> DecVal(s)]
    ELSE [ok |-> TRUE, val |-> DEFAULT_RETENTION_HOURS]
PyInt(s) ==
    LET t == Strip(s)
        signed == t # <<>> /\ t[1] \in {"+", "-"}
        d == IF signed THEN Tail(t) ELSE t
    IN  IF PyIntDigitsOk(d)
        THEN [ok |-> TRUE,
              val |-> IF signed /\ t[1] = "-"
                      THEN 0 - DecVal(DropUnderscores(d))
                      ELSE DecVal(DropUnderscores(d))]
        ELSE [ok |-> FALSE, val |-> 0]

(***************************************************************************)
(* The accumulator: a mapping from keys (text) to values.                  *)
(***************************************************************************)
KEY_PROCESS_TREE == <<"p", "r", "o", "c", "e", "s", "s", "_", "t", "r", "e", "e">>
KEY_COMMAND_ARGS == <<"c", "o", "m", "m", "a", "n", "d", "_", "a", "r", "g", "s">>
KEY_PACKAGE_ACTIONS ==
    <<"p", "a", "c", "k", "a", "g", "e", "_", "a", "c", "t", "i", "o", "n", "s">>
KEY_FULL_TRANSACTION_TIME ==
    <<"f", "u", "l", "l", "_", "t", "r", "a", "n", "s", "a", "c", "t", "i", "o", "n", "_">> \o
    <<"t", "i", "m", "e">>
TIME_SUFFIX == <<"_", "t", "i", "m", "e">>

\* d[k] = v of a Python dict
Put(d, k, v) == [x \in (DOMAIN d) \cup {k} |-> IF x = k THEN v ELSE d[x]]

(***************************************************************************)
(* MetricsFilter.                                                          *)
(***************************************************************************)
TIMER_PREFIX == <<"t", "i", "m", "e", "r", ":", " ">>
EVENT_SEP == <<":", " ">>
MS_SUFFIX == <<" ", "m", "s">>
NumChars == DigitSet \cup {"."}

\* A log record's msg is a str or another object (here an int); the filter
\* matches str(record.msg).
StrMsg(s) == [type |-> "str", s |-> s, n |-> 0]
IntMsg(n) == [type |-> "int", s |-> <<>>, n |-> n]
Str(msg) == IF msg.type = "int" THEN IntToChars(msg.n) ELSE msg.s

\* The places j of the ": " before <millisecs> at which
\* ^timer: (?P<event>.*): (?P<millisecs>[0-9.]+) ms$ matches all of s:
\* event is s[8..j-1] (no newline: "." does not match one), millisecs is
\* s[j+2..Len(s)-3] and is not empty.
PatternSplits(s) ==
    { j \in 8..(Len(s) - 5) :
        /\ SubSeq(s, 1, 7) = TIMER_PREFIX
        /\ \A i \in 8..(j - 1) : s[i] # "\n"
        /\ SubSeq(s, j, j + 1) = EVENT_SEP
        /\ \A i \in (j + 2)..(Len(s) - 3) : s[i] \in NumChars
        /\ SubSeq(s, Len(s) - 2, Len(s)) = MS_SUFFIX }

\* TIME_PATTERN.fullmatch(s): ".*" is greedy, so the event is the longest.
NoMatch == [matched |-> FALSE, event |-> <<>>, millisecs |-> <<>>]
TIME_PATTERN(s) ==
    IF PatternSplits(s) = {} THEN NoMatch
    ELSE LET j == CHOOSE x \in PatternSplits(s) :
                      \A y \in PatternSplits(s) : y <= x
         IN  [matched |-> TRUE,
              event |-> SubSeq(s, 8, j - 1),
              millisecs |-> SubSeq(s, j + 2, Len(s) - 3)]

\* "{}_time".format(m.group("event").replace(" ", "_"))
TimerKey(event) == Replace(event, " ", "_") \o TIME_SUFFIX

\* (mutant) filter() lets the record through
FilterReturnTrue == TRUE
\* The value filter() returns when it returns.
FilterReturn == FALSE

\* MetricsFilter.filter(record) on the accumulator d: the accumulator
\* afterwards, and what the call did: raised |-> TRUE when int() raised
\* ValueError (before the assignment), else rv is the value returned.
MetricsFilter(d, msg) ==
    LET m == TIME_PATTERN(Str(msg))
        v == PyInt(m.millisecs)
    IN  IF ~m.matched
        THEN [metrics |-> d, raised |-> FALSE, rv |-> FilterReturn]
        ELSE IF ~v.ok
        THEN [metrics |-> d, raised |-> TRUE, rv |-> FALSE]
        ELSE [metrics |-> Put(d, TimerKey(m.event), v.val),
              raised |-> FALSE, rv |-> FilterReturn]

\* (mutant) the error text has the form of a timer message
ERROR_MSG_TimerShaped ==
    StrMsg(TIMER_PREFIX \o <<"w">> \o EVENT_SEP \o <<"1">> \o MS_SUFFIX)
\* The message of LOGGER.error in write_results (record.msg is the format).
ERROR_MSG ==
    StrMsg(<<"E", "r", "r", "o", "r", " ", "w", "r", "i", "t", "i", "n", "g", " ">> \o
           <<"p", "e", "r", "f", "o", "r", "m", "a", "n", "c", "e", " ">> \o
           <<"m", "e", "t", "r", "i", "c", "s", " ", "t", "o", " ">> \o
           <<"f", "i", "l", "e", " ", "%", "s">>)

\* One dispatch of a record by the dnf logger (Logger.callHandlers): every
\* handler whose level admits the record handles it, in registration order.
\* metrics_handler (level DDEBUG, atLevel says whether the record reaches
\* it) emits to stderr only if its filter returns true; an exception of the
\* filter leaves the dispatch, so the handlers registered after
\* metrics_handler are not called.
NoMsg == [type |-> "none", s |-> <<>>, n |-> 0]
NoLog == [msg |-> NoMsg, observed |-> FALSE, raised |-> FALSE,
          stderr |-> FALSE, before |-> FALSE, after |-> FALSE]
Dispatch(d, msg, atLevel) ==
    IF ~atLevel
    THEN [metrics |-> d,
          log |-> [msg |-> msg, observed |-> FALSE, raised |-> FALSE,
                   stderr |-> FALSE, before |-> TRUE, after |-> TRUE]]
    ELSE LET f == MetricsFilter(d, msg)
         IN  [metrics |-> f.metrics,
              log |-> [msg |-> msg, observed |-> TRUE, raised |-> f.raised,
                       stderr |-> (~f.raised) /\ f.rv,
                       before |-> TRUE, after |-> ~f.raised]]

(***************************************************************************)
(* The file system.                                                        *)
(***************************************************************************)
Parent(path) == SubSeq(path, 1, Len(path) - 1)
Join(dir, name) == Append(dir, name)
Exists(files, path) == \E e \in files : e.path = path
IsDir(files, path) == \E e \in files : e.path = path /\ e.kind = "dir"
IsFile(files, path) == \E e \in files : e.path = path /\ e.kind = "file"
EntryAt(files, path) == CHOOSE e \in files : e.path = path
DirEntry(path, t) == [path |-> path, mtime |-> t, kind |-> "dir"]
FileEntry(path, t) == [path |-> path, mtime |-> t, kind |-> "file"]

\* os.listdir(dir): the names of the direct entries of dir
ListDir(files, dir) ==
    { e.path[Len(e.path)] :
        e \in { x \in files : Len(x.path) = Len(dir) + 1 /\ Parent(x.path) = dir } }

\* os.makedirs(dir) can succeed: dir is not there and no ancestor is a file
CanMakedirs(files, dir) ==
    /\ ~Exists(files, dir)
    /\ \A i \in 1..Len(dir) : ~IsFile(files, SubSeq(dir, 1, i))
\* os.makedirs(dir) at time t: dir and its missing ancestors
MakedirsAt(files, dir, t) ==
    files \cup { DirEntry(SubSeq(dir, 1, i), t) :
                   i \in { k \in 1..Len(dir) : ~Exists(files, SubSeq(dir, 1, k)) } }

\* open(path, "w") can succeed: the directory is there, path is no directory
CanOpenW(files, path) == IsDir(files, Parent(path)) /\ ~IsDir(files, path)
\* open(path, "w") at time t: the file is created or truncated
OpenWAt(files, path, t) ==
    { e \in files : e.path # path } \cup { FileEntry(path, t) }

\* "perfmetrics-{}_{}.json".format(now, os.getpid()); now is a float
FloatRepr(t) == IntToChars(t) \o <<".", "0">>
\* (mutant) the file name carries the timestamp only
RecordFileNameNoPid(now, pid) ==
    <<"perfmetrics-">> \o FloatRepr(now) \o <<".json">>
RecordFileName(now, pid) ==
    <<"perfmetrics-">> \o FloatRepr(now) \o <<"_">> \o IntToChars(pid) \o <<".json">>

\* (mutant) no entry is ever old enough
IsExpiredNever(mtime, now, hours) == FALSE
\* (mutant) the comparison is not strict
IsExpiredOrEqual(mtime, now, hours) == mtime <= now - hours * SecondsPerHour
\* os.stat(f).st_mtime < now - retention_hours * 3600
IsExpired(mtime, now, hours) == mtime < now - hours * SecondsPerHour

(***************************************************************************)
(* The environment of a run: processes, configuration, transaction.        *)
(***************************************************************************)
Procs == {1, 2}
Pid(p) == 4240 + p                       \* os.getpid(): distinct per process
OLD_PID == Pid(0)                        \* pid of an earlier invocation
StartClock == 5 * SecondsPerHour         \* the clock when the run starts

Absent == [present |-> FALSE, value |-> <<>>]
Option(v) == [present |-> TRUE, value |-> v]
CUSTOM_METRICS_DIR == << <<"srv">>, <<"metrics">> >>
RetentionTexts == { <<"1">>, <<"0">>, <<"a", "b", "c">> }
Configs ==
    { [has_main |-> FALSE, metrics_dir |-> Absent, retention_hours |-> Absent] }
    \cup { [has_main |-> TRUE, metrics_dir |-> d, retention_hours |-> r] :
             d \in {Absent, Option(CUSTOM_METRICS_DIR)},
             r \in {Absent} \cup {Option(x) : x \in RetentionTexts} }

\* The directory a configured run writes to.
ConfiguredDir(c) ==
    IF c.has_main /\ c.metrics_dir.present THEN c.metrics_dir.value
    ELSE DEFAULT_METRICS_DIR

\* list(reversed([proc.name()] + [p.name() for p in proc.parents()]))
RECURSIVE Reversed(_)
Reversed(s) == IF s = <<>> THEN s ELSE Reversed(Tail(s)) \o <<Head(s)>>
ProcessTree(name, parents) == Reversed(<<name>> \o parents)
ParentNames == <<"bash", "sshd", "systemd">>
Argv == <<"dnf", "install", "foo">>

\* Members of base.transaction.
Member(n, act, size, isize) ==
    [name |-> n, arch |-> "x86_64", epoch |-> "0", version |-> "1.2",
     release |-> "3.el9", action_short |-> act,
     pkg |-> [size |-> size, installsize |-> isize]]
MemberInstall == Member("foo", "I", 100, 300)
MemberRemove == Member("bar", "E", 40, 90)
Transactions ==
    { <<MemberInstall, MemberRemove>>, <<MemberRemove, MemberInstall>> }

\* The record pre_transaction builds of one member.
PackageAction(m) ==
    [name |-> m.name, arch |-> m.arch, epoch |-> m.epoch,
     version |-> m.version, release |-> m.release,
     action |-> m.action_short, package_size |-> m.pkg.size,
     install_size |-> m.pkg.installsize]
\* (mutant) removals are left out of the snapshot
PackageActionsWithoutRemovals(members) ==
    LET kept == SelectSeq(members, LAMBDA m : m.action_short # "E")
    IN  [i \in 1..Len(kept) |-> PackageAction(kept[i])]
PackageActions(members) ==
    [i \in 1..Len(members) |-> PackageAction(members[i])]

\* What is on disk before the run.  BaseFs is there always; inside the
\* metrics directory there may be records of earlier invocations and a
\* sub-directory holding a file of its own.
VarLogDnf == << <<"var">>, <<"log">>, <<"dnf">> >>
OutsideFile == FileEntry(Join(VarLogDnf, <<"dnf.log">>), 0)
BaseFs == MakedirsAt({}, VarLogDnf, 0) \cup {OutsideFile}
OldAges ==
    { SecondsPerHour, DEFAULT_RETENTION_HOURS * SecondsPerHour,
      DEFAULT_RETENTION_HOURS * SecondsPerHour + 1 }
OldRecords(dir) ==
    { FileEntry(Join(dir, RecordFileName(StartClock - a, OLD_PID)), StartClock - a) :
        a \in OldAges }
SubDirs(dir) ==
    { DirEntry(Join(dir, <<"sub">>), StartClock - a) :
        a \in {0, DEFAULT_RETENTION_HOURS * SecondsPerHour + 1} }
NestedFile(dir) == FileEntry(Join(Join(dir, <<"sub">>), <<"x">>), 0)
OldEntries(dir) == OldRecords(dir) \cup SubDirs(dir)
\* one entry per path
OnePerPath(S) == \A e1 \in S, e2 \in S : e1.path = e2.path => e1 = e2
InitialFs(dir, n) ==
    { BaseFs }
    \cup { MakedirsAt(BaseFs, Parent(dir), 0) \cup {FileEntry(dir, 0)} }
    \cup { MakedirsAt(BaseFs, dir, 0) \cup S
             \cup (IF S \cap SubDirs(dir) # {} THEN {NestedFile(dir)} ELSE {}) :
             S \in { X \in SUBSET OldEntries(dir) :
                       Cardinality(X) <= n /\ OnePerPath(X) } }

(***************************************************************************)
(* The state after construction (DnfPerfMetrics.__init__).                 *)
(***************************************************************************)
NoErr == [type |-> "none", at |-> "none"]
Raised(type, at) == [type |-> type, at |-> at]
NoTime == 0 - 1

\* self.time_metrics when __init__ returns
Constructed ==
    Put(Put(<<>>, KEY_PROCESS_TREE, ProcessTree("dnf", ParentNames)),
        KEY_COMMAND_ARGS, Argv)

InitCommon ==
    /\ clock = StartClock
    /\ cfg \in Configs
    /\ fs \in InitialFs(ConfiguredDir(cfg), MaxOldFiles)
    /\ pc = [p \in Procs |-> "constructed"]
    /\ err = [p \in Procs |-> NoErr]
    /\ time_metrics = [p \in Procs |-> Constructed]
    /\ metrics_dir = [p \in Procs |-> DEFAULT_METRICS_DIR]
    /\ retention_hours = [p \in Procs |-> DEFAULT_RETENTION_HOURS]
    /\ full_command_start_time = [p \in Procs |-> StartClock]
    /\ transaction_start_time = [p \in Procs |-> NoTime]
    /\ lastLog = [p \in Procs |-> NoLog]
    /\ wnow = [p \in Procs |-> NoTime]
    /\ writes = [p \in Procs |-> <<>>]
    /\ cnow = [p \in Procs |-> NoTime]
    /\ listed = [p \in Procs |-> {}]
    /\ todo = [p \in Procs |-> {}]
    /\ cur = [p \in Procs |-> <<>>]
    /\ statted = [p \in Procs |-> {}]
    /\ removed = [p \in Procs |-> {}]
    /\ werr = [p \in Procs |-> FALSE]

\* One process runs; the other never leaves its constructor.  At most one
\* entry is in the metrics directory.
Init ==
    /\ InitCommon
    /\ fs \in InitialFs(ConfiguredDir(cfg), 1)
    /\ euid \in { [p \in Procs |-> IF p = 1 THEN u ELSE ROOT_UID] : u \in {ROOT_UID, 1000} }

(***************************************************************************)
(* The operations.                                                         *)
(***************************************************************************)
sweepVars == <<cnow, listed, todo, cur, statted, removed>>
writeVars == <<wnow, writes, werr>>
confVars == <<metrics_dir, retention_hours>>
envVars == <<cfg, euid, full_command_start_time>>

\* An exception leaves the hook of process p.
Raise(p, type, at) ==
    /\ pc' = [pc EXCEPT ![p] = "raised"]
    /\ err' = [err EXCEPT ![p] = Raised(type, at)]

\* time.time() advances.
Tick ==
    /\ clock < StartClock + MaxTicks
    /\ clock' = clock + 1
    /\ UNCHANGED <<fs, pc, err, time_metrics, transaction_start_time, lastLog,
                   sweepVars, writeVars, confVars, envVars>>

\* The host logs a record on the dnf logger between two hooks of p.
Log(p, msg, atLevel) ==
    /\ pc[p] \in {"constructed", "configured", "pre", "done"}
    /\ LET out == Dispatch(time_metrics[p], msg, atLevel)
       IN  /\ time_metrics' = [time_metrics EXCEPT ![p] = out.metrics]
           /\ lastLog' = [lastLog EXCEPT ![p] = out.log]
           /\ IF out.log.raised
              THEN \/ Raise(p, "ValueError", "filter")
                   \/ UNCHANGED <<pc, err>>
              ELSE UNCHANGED <<pc, err>>
    /\ UNCHANGED <<clock, fs, transaction_start_time,
                   sweepVars, writeVars, confVars, envVars>>

\* DnfPerfMetrics.config
Config(p) ==
    /\ pc[p] = "constructed"
    /\ LET dir == IF cfg.has_main /\ cfg.metrics_dir.present
                  THEN cfg.metrics_dir.value ELSE metrics_dir[p]
           given == cfg.has_main /\ cfg.retention_hours.present
           v == PyInt(cfg.retention_hours.value)
       IN  /\ metrics_dir' = [metrics_dir EXCEPT ![p] = dir]
           /\ IF given /\ ~v.ok
              THEN /\ Raise(p, "ValueError", "config")
                   /\ UNCHANGED retention_hours
              ELSE /\ retention_hours' =
                        [retention_hours EXCEPT ![p] = IF given THEN v.val ELSE @]
                   /\ pc' = [pc EXCEPT ![p] = "configured"]
                   /\ UNCHANGED err
    /\ UNCHANGED <<clock, fs, time_metrics, transaction_start_time, lastLog,
                   sweepVars, writeVars, envVars>>

\* DnfPerfMetrics.pre_transaction, members being base.transaction
PreTransaction(p, members) ==
    /\ pc[p] \in {"configured", "pre"}
    /\ transaction_start_time' = [transaction_start_time EXCEPT ![p] = clock]
    /\ time_metrics' =
         [time_metrics EXCEPT
            ![p] = Put(@, KEY_PACKAGE_ACTIONS, PackageActions(members))]
    /\ pc' = [pc EXCEPT ![p] = "pre"]
    /\ UNCHANGED <<clock, fs, err, lastLog, sweepVars, writeVars, confVars, envVars>>

\* int((time.time() - self.transaction_start_time) * 1000)
ElapsedMs(now, start) == (now - start) * MsPerSecond
\* (mutant) a duration already in the record is kept
FinalizeKeepsExisting(d, now, start) ==
    IF KEY_FULL_TRANSACTION_TIME \in DOMAIN d THEN d
    ELSE Put(d, KEY_FULL_TRANSACTION_TIME, ElapsedMs(now, start))
\* (mutant) the duration is not merged
FinalizeSkipped(d, now, start) == d
\* The finalization of the record in transaction().
Finalize(d, now, start) == Put(d, KEY_FULL_TRANSACTION_TIME, ElapsedMs(now, start))
\* (mutant) the privilege gate is missing
NotRootNever(uid) == FALSE
\* (mutant) the privilege gate is inverted
NotRootInverted(uid) == uid = ROOT_UID
\* os.geteuid() != 0
NotRoot(uid) == uid # ROOT_UID

\* DnfPerfMetrics.transaction up to the first step of write_results that
\* other processes can see the effect of: the finalization, the privilege
\* gate, then now = time.time() and os.path.exists(metrics_dir).
Transaction(p) ==
    /\ pc[p] = "pre"
    /\ time_metrics' =
         [time_metrics EXCEPT ![p] = Finalize(@, clock, transaction_start_time[p])]
    /\ IF NotRoot(euid[p])
       THEN /\ pc' = [pc EXCEPT ![p] = "done"]
            /\ UNCHANGED wnow
       ELSE /\ wnow' = [wnow EXCEPT ![p] = clock]
            /\ pc' = [pc EXCEPT ![p] =
                        IF Exists(fs, metrics_dir[p]) THEN "open" ELSE "makedirs"]
    /\ UNCHANGED <<clock, fs, err, transaction_start_time, lastLog, writes, werr,
                   sweepVars, confVars, envVars>>

\* write_results: os.makedirs(metrics_dir).  It raises FileExistsError when
\* the directory has appeared since the check, and OSError when the system
\* refuses (permissions, no space, an ancestor that is a file).
Makedirs(p) ==
    /\ pc[p] = "makedirs"
    /\ \/ /\ CanMakedirs(fs, metrics_dir[p])
          /\ fs' = MakedirsAt(fs, metrics_dir[p], clock)
          /\ pc' = [pc EXCEPT ![p] = "open"]
          /\ UNCHANGED err
       \/ /\ Exists(fs, metrics_dir[p])
          /\ Raise(p, "FileExistsError", "makedirs")
          /\ UNCHANGED fs
       \/ /\ ~Exists(fs, metrics_dir[p])
          /\ Raise(p, "OSError", "makedirs")
          /\ UNCHANGED fs
    /\ UNCHANGED <<clock, time_metrics, transaction_start_time, lastLog,
                   sweepVars, writeVars, confVars, envVars>>

\* The except branch of write_results: LOGGER.error goes through the dnf
\* logger, hence through the filter.
WriteFailed(p) ==
    LET out == Dispatch(time_metrics[p], ERROR_MSG, TRUE)
    IN  /\ time_metrics' = [time_metrics EXCEPT ![p] = out.metrics]
        /\ lastLog' = [lastLog EXCEPT ![p] = out.log]
        /\ werr' = [werr EXCEPT ![p] = TRUE]
        /\ UNCHANGED writes
        /\ IF out.log.raised
           THEN Raise(p, "ValueError", "filter")
           ELSE /\ pc' = [pc EXCEPT ![p] = "listdir"]
                /\ UNCHANGED err

\* write_results: open(filename, "w"), json.dump, fh.write.  The open can
\* fail (nothing is created); the writing can fail after the open (the
\* file is left behind, incomplete); both are caught.
OpenWrite(p) ==
    /\ pc[p] = "open"
    /\ LET filename == Join(metrics_dir[p], RecordFileName(wnow[p], Pid(p)))
       IN  \/ /\ CanOpenW(fs, filename)
              /\ fs' = OpenWAt(fs, filename, clock)
              /\ writes' = [writes EXCEPT
                   ![p] = Append(@, [path |-> filename, data |-> time_metrics[p]])]
              /\ pc' = [pc EXCEPT ![p] = "listdir"]
              /\ UNCHANGED <<err, time_metrics, lastLog, werr>>
           \/ /\ UNCHANGED fs
              /\ WriteFailed(p)
           \/ /\ CanOpenW(fs, filename)
              /\ fs' = OpenWAt(fs, filename, clock)
              /\ WriteFailed(p)
    /\ UNCHANGED <<clock, transaction_start_time, wnow, sweepVars, confVars, envVars>>

\* The hook returns when the loop of cleanup_old_logs has no entry left.
AfterEntry(p, left) ==
    pc' = [pc EXCEPT ![p] = IF left = {} THEN "done" ELSE "stat"]

\* cleanup_old_logs: now = time.time() and os.listdir(metrics_dir)
Listdir(p) ==
    /\ pc[p] = "listdir"
    /\ cnow' = [cnow EXCEPT ![p] = clock]
    /\ IF IsDir(fs, metrics_dir[p])
       THEN /\ listed' = [listed EXCEPT ![p] = ListDir(fs, metrics_dir[p])]
            /\ todo' = [todo EXCEPT ![p] = ListDir(fs, metrics_dir[p])]
            /\ AfterEntry(p, ListDir(fs, metrics_dir[p]))
            /\ UNCHANGED err
       ELSE /\ Raise(p, "OSError", "listdir")
            /\ UNCHANGED <<listed, todo>>
    /\ UNCHANGED <<clock, fs, time_metrics, transaction_start_time, lastLog,
                   cur, statted, removed, writeVars, confVars, envVars>>

\* cleanup_old_logs: os.stat(f) of one listed entry and the comparison
Stat(p, f) ==
    /\ pc[p] = "stat"
    /\ f \in todo[p]
    /\ LET path == Join(metrics_dir[p], f)
       IN  IF ~Exists(fs, path)
           THEN /\ Raise(p, "FileNotFoundError", "stat")
                /\ UNCHANGED <<todo, cur, statted>>
           ELSE /\ statted' = [statted EXCEPT
                     ![p] = @ \cup {[name |-> f, mtime |-> EntryAt(fs, path).mtime]}]
                /\ UNCHANGED err
                /\ IF IsExpired(EntryAt(fs, path).mtime, cnow[p], retention_hours[p])
                   THEN /\ cur' = [cur EXCEPT ![p] = f]
                        /\ pc' = [pc EXCEPT ![p] = "remove"]
                        /\ UNCHANGED todo
                   ELSE /\ todo' = [todo EXCEPT ![p] = @ \ {f}]
                        /\ AfterEntry(p, todo[p] \ {f})
                        /\ UNCHANGED cur
    /\ UNCHANGED <<clock, fs, time_metrics, transaction_start_time, lastLog,
                   cnow, listed, removed, writeVars, confVars, envVars>>

\* cleanup_old_logs: os.remove(f)
Remove(p) ==
    /\ pc[p] = "remove"
    /\ LET path == Join(metrics_dir[p], cur[p])
       IN  IF ~Exists(fs, path)
           THEN /\ Raise(p, "FileNotFoundError", "remove")
                /\ UNCHANGED <<fs, todo, removed>>
           ELSE IF IsDir(fs, path)
           THEN /\ Raise(p, "OSError", "remove")
                /\ UNCHANGED <<fs, todo, removed>>
           ELSE /\ fs' = fs \ {EntryAt(fs, path)}
                /\ removed' = [removed EXCEPT ![p] = @ \cup {path}]
                /\ todo' = [todo EXCEPT ![p] = @ \ {cur[p]}]
                /\ AfterEntry(p, todo[p] \ {cur[p]})
                /\ UNCHANGED err
    /\ UNCHANGED <<clock, time_metrics, transaction_start_time, lastLog,
                   cnow, listed, cur, statted, writeVars, confVars, envVars>>

(***************************************************************************)
(* Specifications.                                                         *)
(***************************************************************************)
\* The text logging.Timer emits for an event and a number of milliseconds.
TimerText(event, number) ==
    StrMsg(TIMER_PREFIX \o event \o EVENT_SEP \o number \o MS_SUFFIX)
FULL_TRANSACTION ==
    <<"f", "u", "l", "l", " ", "t", "r", "a", "n", "s", "a", "c", "t", "i", "o", "n">>

\* The records the host logs during a run.
LifecycleMessages ==
    { TimerText(<<"a">>, <<"5">>),
      TimerText(<<"a">>, <<"1", ".", "9">>),
      TimerText(FULL_TRANSACTION, <<"7">>),
      StrMsg(<<"o", "k">>) }

Next ==
    \/ Tick
    \/ \E msg \in LifecycleMessages : Log(1, msg, TRUE)
    \/ Config(1)
    \/ \E members \in Transactions : PreTransaction(1, members)
    \/ Transaction(1)
    \/ Makedirs(1)
    \/ OpenWrite(1)
    \/ Listdir(1)
    \/ \E f \in todo[1] : Stat(1, f)
    \/ Remove(1)

Spec == Init /\ [][Next]_vars


\* Two privileged processes share the metrics directory; the host logs
\* nothing.
ConcTransaction == <<MemberInstall>>
InitConc ==
    /\ InitCommon
    /\ fs \in InitialFs(ConfiguredDir(cfg), 1)
    /\ cfg = [has_main |-> FALSE, metrics_dir |-> Absent, retention_hours |-> Absent]
    /\ euid = [p \in Procs |-> ROOT_UID]

NextConc ==
    \/ Tick
    \/ \E p \in Procs :
         \/ Config(p)
         \/ PreTransaction(p, ConcTransaction)
         \/ Transaction(p)
         \/ Makedirs(p)
         \/ OpenWrite(p)
         \/ Listdir(p)
         \/ \E f \in todo[p] : Stat(p, f)
         \/ Remove(p)

SpecConc == InitConc /\ [][NextConc]_vars

\* The retention sweep: one privileged process, the host logs nothing.
InitSweep ==
    /\ InitCommon
    /\ euid = [p \in Procs |-> ROOT_UID]

NextSweep ==
    \/ Tick
    \/ Config(1)
    \/ PreTransaction(1, ConcTransaction)
    \/ Transaction(1)
    \/ Makedirs(1)
    \/ OpenWrite(1)
    \/ Listdir(1)
    \/ \E f \in todo[1] : Stat(1, f)
    \/ Remove(1)

SpecSweep == InitSweep /\ [][NextSweep]_vars

\* The filter alone: one record, of any text, is logged in a fresh process.
RECURSIVE SeqsUpTo(_, _)
SeqsUpTo(A, n) ==
    IF n = 0 THEN {<<>>}
    ELSE SeqsUpTo(A, n - 1) \cup { Append(s, c) : s \in SeqsUpTo(A, n - 1), c \in A }
EventAlphabet == {"a", "A", " ", ":"}
NumberAlphabet == {"1", "9", ".", "-"}
Prefixes == { TIMER_PREFIX, <<"t", "i", "m", "e", "r", ":">> }
Suffixes == { MS_SUFFIX, <<"m", "s">> }
ParseMessages ==
    { StrMsg(pre \o e \o EVENT_SEP \o n \o suf) :
        pre \in Prefixes, e \in SeqsUpTo(EventAlphabet, MaxEventLen),
        n \in SeqsUpTo(NumberAlphabet, MaxNumLen), suf \in Suffixes }
    \cup { IntMsg(n) : n \in {0, 42} }

\* Two privileged invocations one after the other: the second starts when
\* the hook of the first has returned, so its sweep is the second pass over
\* the directory.  The host logs nothing.
InitTwice ==
    /\ InitCommon
    /\ cfg = [has_main |-> FALSE, metrics_dir |-> Absent, retention_hours |-> Absent]
    /\ euid = [p \in Procs |-> ROOT_UID]

\* The process whose turn it is.
Turn == IF pc[1] = "done" THEN {2} ELSE {1}

NextTwice ==
    \/ Tick
    \/ \E p \in Turn :
         \/ Config(p)
         \/ PreTransaction(p, ConcTransaction)
         \/ Transaction(p)
         \/ Makedirs(p)
         \/ OpenWrite(p)
         \/ Listdir(p)
         \/ \E f \in todo[p] : Stat(p, f)
         \/ Remove(p)

SpecTwice == InitTwice /\ [][NextTwice]_vars
InitParse ==
    /\ InitCommon
    /\ cfg = [has_main |-> FALSE, metrics_dir |-> Absent, retention_hours |-> Absent]
    /\ fs = BaseFs
    /\ euid = [p \in Procs |-> ROOT_UID]

NextParse ==
    /\ lastLog[1] = NoLog
    /\ \E msg \in ParseMessages, atLevel \in BOOLEAN : Log(1, msg, atLevel)

SpecParse == InitParse /\ [][NextParse]_vars


(***************************************************************************)
(* Properties.                                                             *)
(***************************************************************************)
\* The timer grammar as the specification words it: timer: X: N ms, where
\* N is digits with at most one decimal point (and at least one digit).
WellFormedNumber(n) ==
    /\ \A i \in 1..Len(n) : n[i] \in DigitSet \cup {"."}
    /\ Cardinality({ i \in 1..Len(n) : n[i] = "." }) <= 1
    /\ \E i \in 1..Len(n) : n[i] \in DigitSet
TimerForms(s) ==
    { [event |-> SubSeq(s, 8, j - 1), number |-> SubSeq(s, j + 2, Len(s) - 3)] :
        j \in { k \in 8..(Len(s) - 5) :
                  /\ SubSeq(s, 1, 7) = TIMER_PREFIX
                  /\ SubSeq(s, k, k + 1) = EVENT_SEP
                  /\ SubSeq(s, Len(s) - 2, Len(s)) = MS_SUFFIX
                  /\ WellFormedNumber(SubSeq(s, k + 2, Len(s) - 3)) } }
\* floor(N): the digits before the decimal point
RECURSIVE IntegerPart(_)
IntegerPart(n) ==
    IF n = <<>> \/ n[1] = "." THEN <<>> ELSE <<n[1]>> \o IntegerPart(Tail(n))
FloorOf(n) == DecVal(IntegerPart(n))
\* X_time, each space of X an underscore
KeyOfEvent(x) ==
    [i \in 1..Len(x) |-> IF x[i] = " " THEN "_" ELSE x[i]] \o TIME_SUFFIX
Holds(d, k, v) == k \in DOMAIN d /\ d[k] = v

\* A number that starts and ends with a digit: 532, 12.9
PlainNumber(n) ==
    WellFormedNumber(n) /\ n[1] \in DigitSet /\ n[Len(n)] \in DigitSet

\* C1: for every observed message of the form timer: X: N ms (X not empty,
\* N digits with an optional decimal point between them) the filter stores
\* X_time = floor(N) in the accumulator.
C1_TimerStored ==
    \A p \in Procs :
        lastLog[p].observed =>
            \A f \in TimerForms(Str(lastLog[p].msg)) :
                (f.event # <<>> /\ PlainNumber(f.number)) =>
                    /\ ~lastLog[p].raised
                    /\ Holds(time_metrics[p], KeyOfEvent(f.event), FloorOf(f.number))

\* C2: for every observed message that does not fit the timer grammar (any
\* other text, a non-string, a number with two decimal points or without a
\* digit) the filter raises nothing and leaves the accumulator as it was.
C2_NonMatchIgnored ==
    \A p \in Procs :
        (lastLog[p].observed /\ TimerForms(Str(lastLog[p].msg)) = {}) =>
            /\ ~lastLog[p].raised
            /\ time_metrics[p] = Constructed

\* C3: no sweeper ends in an error because an entry it listed has been
\* deleted by another process before its stat or its remove.
C3_VanishedFileTolerated ==
    \A p \in Procs : ~(pc[p] = "raised" /\ err[p].type = "FileNotFoundError")

\* C4: a failure of the directory creation or of the file open/write in
\* write_results never leaves the transaction-complete hook.
C4_WriteFailureSwallowed ==
    \A p \in Procs : pc[p] = "raised" => err[p].at \notin {"makedirs", "open"}

\* The step of p is its transaction-complete hook, from entry to return.
HookPassedGate(p) ==
    /\ pc[p] = "pre"
    /\ pc'[p] # "pre"
    /\ err'[p].at # "filter"
WriteOrSweep == {"makedirs", "open", "listdir", "stat", "remove"}

\* C5: a non-privileged process merges full_transaction_time at
\* transaction-complete and returns normally; it never creates the
\* directory, writes a file or sweeps, and the file system stays as it was.
C5_NonRootSkips ==
    /\ [](\A p \in Procs :
            euid[p] # ROOT_UID =>
                /\ pc[p] \notin WriteOrSweep
                /\ writes[p] = <<>>
                /\ cnow[p] = NoTime
                /\ removed[p] = {}
                /\ err[p].at \in {"none", "filter", "config"})
    /\ [][\A p \in Procs :
            (euid[p] # ROOT_UID /\ HookPassedGate(p)) =>
                /\ pc'[p] = "done"
                /\ err'[p] = NoErr
                /\ Holds(time_metrics'[p], KEY_FULL_TRANSACTION_TIME,
                         (clock - transaction_start_time[p]) * 1000)
                /\ fs' = fs]_vars
    /\ [][euid[1] # ROOT_UID => fs' = fs]_vars
C5_Witness ==
    \E p \in Procs :
        /\ euid[p] # ROOT_UID
        /\ pc[p] = "done"
        /\ KEY_FULL_TRANSACTION_TIME \in DOMAIN time_metrics[p]
        /\ IsDir(fs, metrics_dir[p])
        /\ ListDir(fs, metrics_dir[p]) # {}

\* The sweep of p has run to completion.
SweepCompleted(p) == pc[p] = "done" /\ cnow[p] # NoTime
Age(p, e) == cnow[p] - e.mtime
TooOld(p, e) == Age(p, e) > retention_hours[p] * 3600

C8_LastWriteWins ==
    [][\A p \in Procs :
         (lastLog'[p] # lastLog[p] /\ lastLog'[p].observed) =>
             \A f \in TimerForms(Str(lastLog'[p].msg)) :
                 /\ KeyOfEvent(f.event) \in DOMAIN time_metrics[p] =>
                        Holds(time_metrics'[p], KeyOfEvent(f.event), FloorOf(f.number))
                 /\ \A k \in DOMAIN time_metrics[p] \ {KeyOfEvent(f.event)} :
                        Holds(time_metrics'[p], k, time_metrics[p][k])]_vars

RequiredKeys ==
    {KEY_PROCESS_TREE, KEY_COMMAND_ARGS, KEY_PACKAGE_ACTIONS, KEY_FULL_TRANSACTION_TIME}

\* C9: the record holds process_tree, command_args, package_actions and
\* full_transaction_time when write_results serializes it, whatever was
\* logged between the hooks.
C9_RequiredKeysWritten ==
    \A p \in Procs :
        /\ pc[p] \in {"makedirs", "open"} => RequiredKeys \subseteq DOMAIN time_metrics[p]
        /\ \A i \in 1..Len(writes[p]) : RequiredKeys \subseteq DOMAIN writes[p][i].data
C9_Witness ==
    \E p \in Procs :
        /\ Len(writes[p]) = 1
        /\ KeyOfEvent(<<"a">>) \in DOMAIN writes[p][1].data
        /\ RequiredKeys \subseteq DOMAIN writes[p][1].data

BeforeHook == {"constructed", "configured", "pre"}
\* A record file of process p is on disk.
OwnFileOnDisk(p) ==
    \E e \in fs :
        \E t \in StartClock..e.mtime :
            e.path = Join(metrics_dir[p], RecordFileName(t, Pid(p)))

\* C10 as claimed: an invocation writes its record exactly once, and not
\* before the transaction-complete hook.
C10_ExactlyOnce ==
    \A p \in Procs :
        /\ pc[p] \in BeforeHook => (writes[p] = <<>> /\ ~OwnFileOnDisk(p))
        /\ pc[p] = "done" => Len(writes[p]) = 1
\* C10 as amended: an invocation writes its record at most once, and not
\* before the transaction-complete hook; when the hook has returned it has
\* written exactly one record if it is privileged and the write did not
\* fail, and none otherwise.
C10_AtMostOnce ==
    \A p \in Procs :
        /\ Len(writes[p]) <= 1
        /\ pc[p] \in BeforeHook => (writes[p] = <<>> /\ ~OwnFileOnDisk(p))
        /\ pc[p] = "done" =>
             (Len(writes[p]) = 1 <=> (euid[p] = ROOT_UID /\ ~werr[p]))
C10_Witness ==
    \E p \in Procs :
        /\ pc[p] = "done"
        /\ Len(writes[p]) = 1
        /\ Exists(fs, writes[p][1].path)
        /\ OwnFileOnDisk(p)

\* C11 as claimed: once the record has been written the accumulator is
\* never mutated again, whatever message or hook follows the write.
C11_NeverMutatedAfterWrite ==
    [][\A p \in Procs :
         writes[p] # <<>> => time_metrics'[p] = time_metrics[p]]_vars
\* C11 as amended: the merge of full_transaction_time is the last mutation
\* before the write.  From the finalization to the return of the hook no
\* step mutates the accumulator, the record written is the accumulator as
\* finalized, and it is never rewritten: a message logged after the hook
\* is still stored in the accumulator in memory, not in the file.
C11_LastMutationBeforeWrite ==
    [][\A p \in Procs :
         /\ pc[p] \in WriteOrSweep => time_metrics'[p] = time_metrics[p]
         /\ writes'[p] # writes[p] =>
              /\ writes[p] = <<>>
              /\ Len(writes'[p]) = 1
              /\ writes'[p][1].data = time_metrics'[p]
              /\ Holds(writes'[p][1].data, KEY_FULL_TRANSACTION_TIME,
                       ElapsedMs(wnow[p], transaction_start_time[p]))]_vars
C11_Witness ==
    \E p \in Procs :
        /\ pc[p] = "done"
        /\ Len(writes[p]) = 1
        /\ time_metrics[p] # writes[p][1].data
        /\ KEY_FULL_TRANSACTION_TIME \in DOMAIN writes[p][1].data

\* The text of an integer: digits, with an optional sign before them.
IntegerText(s) ==
    LET d == IF s # <<>> /\ s[1] \in {"+", "-"} THEN Tail(s) ELSE s
    IN  d # <<>> /\ \A i \in 1..Len(d) : d[i] \in DigitSet
IntegerValue(s) ==
    IF s[1] = "-" THEN 0 - DecVal(Tail(s))
    ELSE IF s[1] = "+" THEN DecVal(Tail(s)) ELSE DecVal(s)
\* The configuration gives a retention_hours that is not an integer.
Malformed(c) ==
    c.has_main /\ c.retention_hours.present /\ ~IntegerText(c.retention_hours.value)
\* No hook of p has run.
NoHookRan(p) ==
    /\ transaction_start_time[p] = NoTime
    /\ KEY_PACKAGE_ACTIONS \notin DOMAIN time_metrics[p]
    /\ wnow[p] = NoTime /\ writes[p] = <<>> /\ cnow[p] = NoTime

\* The step of p is its config(), from entry to return or raise.
ConfigReturns(p) ==
    /\ pc[p] = "constructed"
    /\ pc'[p] # "constructed"
    /\ err'[p].at # "filter"

ConfigLoaded(p) == pc[p] \notin {"constructed", "raised"}

\* C13: after a configuration load that completes without error,
\* retention_hours is a positive integer.
C13_RetentionPositive ==
    \A p \in Procs : ConfigLoaded(p) => retention_hours[p] > 0

\* The file p writes, or is about to write, its record to.
OwnFileName(p) == Join(metrics_dir[p], RecordFileName(wnow[p], Pid(p)))
\* The step is the write attempt of q (open, json.dump, write).
Opens(q) == pc[q] = "open" /\ pc'[q] # "open"

\* C14: privileged invocations of distinct process ids that write into the
\* same directory, even at the same timestamp, never use the same file
\* name, and the write of one never replaces a file written by another.
C14_NoNameCollision ==
    /\ [](\A p, q \in Procs :
            (p # q /\ wnow[p] # NoTime /\ wnow[q] # NoTime /\
             metrics_dir[p] = metrics_dir[q]) =>
                /\ OwnFileName(p) # OwnFileName(q)
                /\ \A i \in 1..Len(writes[p]), j \in 1..Len(writes[q]) :
                       writes[p][i].path # writes[q][j].path)
    /\ [][\A p, q \in Procs :
            (p # q /\ Opens(q)) =>
                \A e \in fs : e.path # OwnFileName(q) => e \in fs']_vars
C14_Witness ==
    /\ Len(writes[1]) = 1 /\ Len(writes[2]) = 1
    /\ wnow[1] = wnow[2]
    /\ metrics_dir[1] = metrics_dir[2]
    /\ Exists(fs, writes[1][1].path) /\ Exists(fs, writes[2][1].path)
    /\ writes[1][1].path # writes[2][1].path

\* Both passes have run to completion, the second one (process 2) after
\* the first (process 1), and the second invocation has put no file into
\* the directory in between: its write attempt failed at the open.
TwoPasses ==
    /\ SweepCompleted(1) /\ SweepCompleted(2)
    /\ writes[2] = <<>> /\ werr[2]
    /\ OwnFileName(2) \notin listed[2]
\* The entries the first pass examined and kept.
KeptByFirst == { e \in statted[1] : Join(metrics_dir[1], e.name) \notin removed[1] }

\* C15 as claimed: the second of two sweeps in succession, no file having
\* been added or modified in between, deletes nothing.
C15_SecondPassDeletesNothing ==
    TwoPasses => removed[2] = {}
\* C15 as amended: the second pass deletes exactly the entries the first
\* pass kept whose age has come to exceed the retention period at the time
\* of the second pass; it deletes nothing when it runs at the same clock
\* reading as the first.
C15_SecondPassDeletesNewlyExpired ==
    TwoPasses =>
        /\ removed[2] =
             { Join(metrics_dir[2], e.name) : e \in { x \in KeptByFirst : TooOld(2, x) } }
        /\ cnow[2] = cnow[1] => removed[2] = {}
C15_Witness ==
    /\ TwoPasses
    /\ cnow[2] = cnow[1]
    /\ removed[1] # {}
    /\ listed[2] # {}
    /\ removed[2] = {}

\* The transaction-complete hook of p has ended, by return or by raise.
HookEnded(p) ==
    \/ pc[p] = "done"
    \/ pc[p] = "raised" /\ err[p].at \in {"makedirs", "listdir", "stat", "remove"}

\* C16: in the privileged path the sweep always runs, and after the write
\* attempt, whether the attempt succeeded or failed (directory creation or
\* file write); in the non-privileged path it never runs.
C16_SweepAlwaysAfterWrite ==
    \A p \in Procs :
        /\ euid[p] # ROOT_UID => cnow[p] = NoTime
        /\ cnow[p] # NoTime => (writes[p] # <<>> \/ werr[p])
        /\ (euid[p] = ROOT_UID /\ HookEnded(p)) => cnow[p] # NoTime

PackageFields ==
    {"name", "arch", "epoch", "version", "release", "action",
     "package_size", "install_size"}
\* r is the record of member m.
RecordOf(m, r) ==
    /\ DOMAIN r = PackageFields
    /\ r.name = m.name /\ r.arch = m.arch /\ r.epoch = m.epoch
    /\ r.version = m.version /\ r.release = m.release
    /\ r.action = m.action_short
    /\ r.package_size = m.pkg.size /\ r.install_size = m.pkg.installsize
\* s is the snapshot of the transaction: one record per member, in order.
SnapshotOf(members, s) ==
    /\ DOMAIN s = 1..Len(members)
    /\ \A i \in 1..Len(members) : RecordOf(members[i], s[i])
\* The step of p is a pre_transaction hook.
PreTransactionStep(p) ==
    /\ pc[p] \in {"configured", "pre"}
    /\ pc'[p] = "pre"
    /\ lastLog' = lastLog /\ clock' = clock

C18_OwnRecordSurvivesSweep ==
    \A p \in Procs :
        (SweepCompleted(p) /\ Len(writes[p]) = 1) =>
            /\ writes[p][1].path \notin removed[p]
            /\ Exists(fs, writes[p][1].path)

\* C19: whatever timer events were observed before the write, "full
\* transaction" among them, the written record holds process_tree and
\* command_args as seeded at construction, package_actions as the last
\* pre-transaction snapshot left it and full_transaction_time as computed at
\* the finalization.
C19_NonTimerKeysPreserved ==
    \A p \in Procs :
        \A i \in 1..Len(writes[p]) :
            LET data == writes[p][i].data
            IN  /\ Holds(data, KEY_PROCESS_TREE, Constructed[KEY_PROCESS_TREE])
                /\ Holds(data, KEY_COMMAND_ARGS, Argv)
                /\ KEY_PACKAGE_ACTIONS \in DOMAIN data
                /\ \E members \in Transactions :
                       SnapshotOf(members, data[KEY_PACKAGE_ACTIONS])
                /\ Holds(data, KEY_FULL_TRANSACTION_TIME,
                         (wnow[p] - transaction_start_time[p]) * 1000)
C19_Witness ==
    \E p \in Procs :
        /\ pc[p] = "listdir"
        /\ Len(writes[p]) = 1
        /\ lastLog[p].observed
        /\ lastLog[p].msg = TimerText(FULL_TRANSACTION, <<"7">>)
        /\ KeyOfEvent(<<"a">>) \in DOMAIN writes[p][1].data
        /\ writes[p][1].data[KEY_FULL_TRANSACTION_TIME] # 7

\* C20: when two privileged invocations reach write_results while
\* metrics_dir does not exist, in every interleaving of their exists checks
\* and directory creations neither fails because the other has created the
\* directory first: both go on to the write of their record.
C20_DirectoryRaceTolerated ==
    \A p, q \in Procs :
        (p # q /\ wnow[p] # NoTime /\ wnow[q] # NoTime) =>
            (IsDir(fs, metrics_dir[q]) => err[p] # Raised("FileExistsError", "makedirs"))

====
